---- MODULE Spec2Model ----
(***************************************************************************)
(* Model of azur650/command.py: the Azur650R command/response engine.      *)
(*                                                                         *)
(* Python strings are sequences of one-character strings, so that the      *)
(* frame codec (strip, split, [1:]) and int() are computed as the code     *)
(* computes them.  An optional value (None or a value) is a sequence of    *)
(* length 0 or 1: <<>> is None, <<v>> is the value v.                      *)
(***************************************************************************)
EXTENDS Integers, Sequences, FiniteSets, TLC

VARIABLES
    self,       \* the Azur650R instance's registers (command.py 109-156)
    conn,       \* the serial handle self.__conn: TRUE when open
    pc,         \* position of the running _set_value call, "idle" between calls
    frame,      \* locals of the running _set_value call
    dev,        \* the amplifier at the other end of the serial line
    written,    \* frames written to the transport by the current public call
    result,     \* outcome of the last completed public call
    last,       \* the last _cmd call: state before, read, iteration order, steps
    calls       \* number of public calls made so far

vars == <<self, conn, pc, frame, dev, written, result, last, calls>>

------------------------------------------------------------------------------
(* Bounds of the exploration. *)

MaxLines == 2
Span == 3

------------------------------------------------------------------------------
(* Characters and Python string primitives. *)

CR == "\r"
None == <<>>
Some(v) == <<v>>

Digits == <<"0", "1", "2", "3", "4", "5", "6", "7", "8", "9">>
IsDigit(c) == \E i \in 1..10 : Digits[i] = c
DigitVal(c) == (CHOOSE i \in 1..10 : Digits[i] = c) - 1

\* str.strip(c): every leading and trailing occurrence of c is removed.
RECURSIVE lstrip(_, _)
lstrip(s, c) == IF s # <<>> /\ Head(s) = c THEN lstrip(Tail(s), c) ELSE s

RECURSIVE rstrip(_, _)
rstrip(s, c) ==
    IF s # <<>> /\ s[Len(s)] = c THEN rstrip(SubSeq(s, 1, Len(s) - 1), c) ELSE s

strip(s, c) == rstrip(lstrip(s, c), c)

\* str.split(sep): empty pieces are kept, ''.split(sep) is [''].
RECURSIVE SplitFrom(_, _, _, _)
SplitFrom(s, sep, cur, acc) ==
    IF s = <<>> THEN Append(acc, cur)
    ELSE IF Head(s) = sep THEN SplitFrom(Tail(s), sep, <<>>, Append(acc, cur))
    ELSE SplitFrom(Tail(s), sep, Append(cur, Head(s)), acc)

split(s, sep) == SplitFrom(s, sep, <<>>, <<>>)

\* s[1:], which is '' for the empty string.
Slice1(s) == IF s = <<>> THEN <<>> ELSE Tail(s)

\* Value of a non-empty run of digits.
RECURSIVE DigitsValue(_, _)
DigitsValue(s, acc) ==
    IF s = <<>> THEN acc ELSE DigitsValue(Tail(s), 10 * acc + DigitVal(Head(s)))

\* The integer of a sign and the characters after it: at least one digit and
\* nothing else.  None stands for int()'s ValueError.
SignedInt(sign, body) ==
    IF body = <<>> \/ \E i \in 1..Len(body) : ~IsDigit(body[i]) THEN None
    ELSE IF sign = "-" THEN Some(0 - DigitsValue(body, 0))
    ELSE Some(DigitsValue(body, 0))

\* int() of a string without surrounding blanks: one optional sign comes first.
IntOfStripped(t) ==
    IF t # <<>> /\ Head(t) \in {"-", "+"} THEN SignedInt(Head(t), Tail(t))
    ELSE SignedInt("+", t)

\* int(s) of a string: surrounding blanks are ignored.
int(s) == IntOfStripped(strip(s, " "))

\* '%s' % n for an integer n.
RECURSIVE NatStr(_)
NatStr(n) == IF n < 10 THEN <<Digits[n + 1]>> ELSE Append(NatStr(n \div 10), Digits[(n % 10) + 1])

str(n) == IF n < 0 THEN <<"-">> \o NatStr(0 - n) ELSE NatStr(n)

------------------------------------------------------------------------------
(* String literals of the source: '6' is Ch("6"), '02' is Code(2). *)

Ch(c) == <<c>>
Code(n) == <<Digits[(n \div 10) + 1], Digits[(n % 10) + 1]>>

\* Keys of the per-input maps created by __init__: '01' .. '09'.
InputKeys == {Code(n) : n \in 1..9}

\* Keys of Azur650R.input_names: '00' .. '10'.
input_names == {Code(n) : n \in 0..10}

\* Azur650R.__init__: every register starts as None.
InitSelf ==
    [ power_state |-> None, volume |-> None, bass |-> None, treble |-> None,
      subwoofer |-> None, lfe_trim |-> None, mute_state |-> None,
      dynamic_range |-> None, osd_on |-> None, lip_sync |-> None,
      active_input |-> None,
      audio_source_for_input |-> [k \in InputKeys |-> None],
      video_source_for_input |-> [k \in InputKeys |-> None],
      stereo_audio_mode |-> None, signal_processing_mode |-> None,
      signal_codec |-> None,
      main_software_version |-> None, protocol_version |-> None ]

\* d[k] = v on a Python dict: the key is added when it is new.
DictSet(d, k, v) == [x \in DOMAIN d \cup {k} |-> IF x = k THEN v ELSE d[x]]

------------------------------------------------------------------------------
(* Azur650R._parse_response.  The result is the new registers and the     *)
(* exception the statement raised, "none" when it ran to its end.  r is    *)
(* the tuple of fields; r[1] here is response[0] there.  Reading a field   *)
(* the tuple does not have raises IndexError, int() of a field that is no  *)
(* integer raises ValueError; both happen before the assignment.           *)

Ok(s) == [self |-> s, exc |-> "none"]
Raise(s, e) == [self |-> s, exc |-> e]

\* Variant: a value int() cannot read makes the register unknown.
StoreIntUnchecked(s, reg, n) == Ok([s EXCEPT ![reg] = n])

\* The assignment of an int() result n: int() raises before anything is stored.
StoreInt(s, reg, n) ==
    IF n = None THEN Raise(s, "ValueError: invalid literal") ELSE Ok([s EXCEPT ![reg] = n])

\* register = int(response[2])
SetInt(s, r, reg) ==
    IF Len(r) < 3 THEN Raise(s, "IndexError") ELSE StoreInt(s, reg, int(r[3]))

\* register = response[2]
SetStr(s, r, reg) ==
    IF Len(r) < 3 THEN Raise(s, "IndexError") ELSE Ok([s EXCEPT ![reg] = Some(r[3])])

\* if response[2] == one: register = True / elif response[2] == zero: register = False
SetBit(s, r, reg) ==
    IF Len(r) < 3 THEN Raise(s, "IndexError")
    ELSE IF r[3] = Ch("1") THEN Ok([s EXCEPT ![reg] = Some(TRUE)])
    ELSE IF r[3] = Ch("0") THEN Ok([s EXCEPT ![reg] = Some(FALSE)])
    ELSE Ok(s)

\* -1 * n for an int() result n.
Negated(n) == IF n = None THEN None ELSE Some((0 - 1) * n[1])

\* Variant: the reported magnitude is stored as it is.
SetLfeTrimPlain(s, r) ==
    IF Len(r) < 3 THEN Raise(s, "IndexError") ELSE StoreInt(s, "lfe_trim", int(r[3]))

\* self.__lfe_trim = -1 * int(response[2])
SetLfeTrim(s, r) ==
    IF Len(r) < 3 THEN Raise(s, "IndexError") ELSE StoreInt(s, "lfe_trim", Negated(int(r[3])))

\* Dynamic range: the floats 0.0, 0.25, 0.5, 0.75, 1.0 are kept in hundredths.
SetDynamicRange(s, r) ==
    IF Len(r) < 3 THEN Raise(s, "IndexError")
    ELSE IF r[3] = Ch("0") THEN Ok([s EXCEPT !.dynamic_range = Some(0)])
    ELSE IF r[3] = Ch("1") THEN Ok([s EXCEPT !.dynamic_range = Some(25)])
    ELSE IF r[3] = Ch("2") THEN Ok([s EXCEPT !.dynamic_range = Some(50)])
    ELSE IF r[3] = Ch("3") THEN Ok([s EXCEPT !.dynamic_range = Some(75)])
    ELSE IF r[3] = Ch("4") THEN Ok([s EXCEPT !.dynamic_range = Some(100)])
    ELSE Ok(s)

\* if response[0] == '6': ...
ParseAmplifier(s, r) ==
    IF Len(r) < 2 THEN Raise(s, "IndexError")
    ELSE IF r[2] = Code(1) THEN SetBit(s, r, "power_state")
    ELSE IF r[2] \in {Code(2), Code(3)} THEN SetInt(s, r, "volume")
    ELSE IF r[2] \in {Code(4), Code(5)} THEN SetInt(s, r, "bass")
    ELSE IF r[2] \in {Code(6), Code(7)} THEN SetInt(s, r, "treble")
    ELSE IF r[2] = Code(8) THEN Ok([s EXCEPT !.subwoofer = Some(TRUE)])
    ELSE IF r[2] = Code(9) THEN Ok([s EXCEPT !.subwoofer = Some(FALSE)])
    ELSE IF r[2] = Code(10) THEN SetLfeTrim(s, r)
    ELSE IF r[2] = Code(11) THEN SetBit(s, r, "mute_state")
    ELSE IF r[2] = Code(12) THEN SetDynamicRange(s, r)
    ELSE IF r[2] = Code(13) THEN Ok([s EXCEPT !.osd_on = Some(TRUE)])
    ELSE IF r[2] = Code(14) THEN Ok([s EXCEPT !.osd_on = Some(FALSE)])
    ELSE IF r[2] \in {Code(20), Code(21)} THEN SetInt(s, r, "lip_sync")
    ELSE Ok(s)

\* Variant: the store is not guarded, the key is None while no input is known.
SetSourceUnguarded(s, r, map) ==
    IF Len(r) < 3 THEN Raise(s, "IndexError")
    ELSE Ok([s EXCEPT ![map] =
                DictSet(s[map], IF s.active_input = None THEN None ELSE s.active_input[1],
                        Some(r[3]))])

\* self.__audio_source_for_input[self.__active_input] = response[2], guarded
\* by "self.__active_input is not None" (the field is read only past the guard).
SetSource(s, r, map) ==
    IF s.active_input = None THEN Ok(s)
    ELSE IF Len(r) < 3 THEN Raise(s, "IndexError")
    ELSE Ok([s EXCEPT ![map] = DictSet(s[map], s.active_input[1], Some(r[3]))])

\* if response[0] == '7': ...
ParseSource(s, r) ==
    IF Len(r) < 2 THEN Raise(s, "IndexError")
    ELSE IF r[2] = Code(1) THEN SetStr(s, r, "active_input")
    ELSE IF r[2] = Code(4) THEN SetSource(s, r, "audio_source_for_input")
    ELSE IF r[2] = Code(5) THEN SetSource(s, r, "video_source_for_input")
    ELSE Ok(s)

\* if response[0] == '9': ...
ParseProcessing(s, r) ==
    IF Len(r) < 2 THEN Raise(s, "IndexError")
    ELSE IF r[2] = Code(1) THEN SetStr(s, r, "stereo_audio_mode")
    ELSE IF r[2] \in {Code(2), Code(4)} THEN SetStr(s, r, "signal_processing_mode")
    ELSE IF r[2] \in {Code(3), Code(5)} THEN SetStr(s, r, "signal_codec")
    ELSE Ok(s)

\* if response[0] == '10': ...
ParseVersion(s, r) ==
    IF Len(r) < 2 THEN Raise(s, "IndexError")
    ELSE IF r[2] = Code(1) THEN SetStr(s, r, "main_software_version")
    ELSE IF r[2] = Code(2) THEN SetStr(s, r, "protocol_version")
    ELSE Ok(s)

\* Variant: a group without rules is refused.
_parse_response_strict(s, r) ==
    IF r[1] = Ch("6") THEN ParseAmplifier(s, r)
    ELSE IF r[1] = Ch("7") THEN ParseSource(s, r)
    ELSE IF r[1] = Ch("9") THEN ParseProcessing(s, r)
    ELSE IF r[1] = Code(10) THEN ParseVersion(s, r)
    ELSE Raise(s, "KeyError")

_parse_response(s, r) ==
    IF r[1] = Ch("6") THEN ParseAmplifier(s, r)
    ELSE IF r[1] = Ch("7") THEN ParseSource(s, r)
    ELSE IF r[1] = Ch("9") THEN ParseProcessing(s, r)
    ELSE IF r[1] = Code(10) THEN ParseVersion(s, r)
    ELSE Ok(s)

------------------------------------------------------------------------------
(* Azur650R._cmd. *)

\* '#%s,%s' % (group, number), then ",%s" % data when data is truthy, then "\r".
Command(group, number, data) ==
    <<"#">> \o group \o <<",">> \o number
        \o (IF data # None /\ data[1] # <<>> THEN <<",">> \o data[1] ELSE <<>>)

Frame(group, number, data) == Append(Command(group, number, data), CR)

\* set(response.strip('\r').split('\r'))
SeqToSet(q) == {q[i] : i \in DOMAIN q}
Responses(read) == SeqToSet(split(strip(read, CR), CR))

\* The orders in which "for response in responses" may visit a set: the
\* iteration order of a set is not the order of arrival.
Orders(S) ==
    {o \in [1..Cardinality(S) -> S] : \A i, j \in 1..Cardinality(S) : i # j => o[i] # o[j]}

\* Variant: the lines are visited as the list split() gave, repeats included.
VisitsOfList(read) == {split(strip(read, CR), CR)}

\* The sequences of lines "for response in responses" may go through for a read.
Visits(read) == Orders(Responses(read))

\* tuple(response[1:].split(','))
Fields(line) == split(Slice1(line), ",")

\* Variant: the second field is read before the group is tested.
ProtocolErrorEager(r) ==
    IF Len(r) < 2 THEN "IndexError"
    ELSE IF r[1] # Code(11) THEN "none"
    ELSE IF r[2] = Code(1) THEN "CommandGroupError"
    ELSE IF r[2] = Code(2) THEN "CommandNumberError"
    ELSE IF r[2] = Code(3) THEN "CommandDataError"
    ELSE "ValueError: Invalid command"

\* The exception _cmd raises for a record of group '11', "none" for another group.
ProtocolError(r) ==
    IF r[1] # Code(11) THEN "none"
    ELSE IF Len(r) < 2 THEN "IndexError"
    ELSE IF r[2] = Code(1) THEN "CommandGroupError"
    ELSE IF r[2] = Code(2) THEN "CommandNumberError"
    ELSE IF r[2] = Code(3) THEN "CommandDataError"
    ELSE "ValueError: Invalid command"

\* The loop body for a record whose group-11 test gave e.
ClassifyAs(s, r, e) == IF e # "none" THEN Raise(s, e) ELSE _parse_response(s, r)

\* One pass of the loop body over a record: raise, or hand it to _parse_response.
Classify(s, r) == ClassifyAs(s, r, ProtocolError(r))

\* Variant: the loop goes on to the next record after an error.
ContinuesAlways(p) == TRUE

\* A raise leaves the loop: no later record of the read is visited.
Continues(p) == p.exc = "none"

\* The log entry of a visited record r: the registers before it and the outcome p.
Step(r, s, p) == [rec |-> r, before |-> s, after |-> p.self, exc |-> p.exc]

\* The for loop from record i on.  steps logs each record visited; ret is the
\* loop variable at the return, the last record visited.
RECURSIVE CmdLoop(_, _, _, _)

\* Variant: an exception puts back the registers the call began with.
CmdAfterRollingBack(s, order, i, steps, r, p) ==
    IF Continues(p) THEN CmdLoop(p.self, order, i + 1, Append(steps, Step(r, s, p)))
    ELSE [self |-> IF steps = <<>> THEN s ELSE steps[1].before, exc |-> p.exc, ret |-> None,
          steps |-> Append(steps, Step(r, s, p))]

\* After record i, the tuple r, was classified with outcome p: on to the next
\* record, or out of _cmd with the exception.
CmdAfter(s, order, i, steps, r, p) ==
    IF Continues(p) THEN CmdLoop(p.self, order, i + 1, Append(steps, Step(r, s, p)))
    ELSE [self |-> p.self, exc |-> p.exc, ret |-> None, steps |-> Append(steps, Step(r, s, p))]

\* The loop body for the tuple r of record i.
CmdVisit(s, order, i, steps, r) == CmdAfter(s, order, i, steps, r, Classify(s, r))

CmdLoop(s, order, i, steps) ==
    IF i > Len(order)
    THEN [self |-> s, exc |-> "none", ret |-> Some(Fields(order[Len(order)])), steps |-> steps]
    ELSE CmdVisit(s, order, i, steps, Fields(order[i]))

\* _cmd on an open port, given what read(50) returned and the order in which the
\* set is visited.
_cmd(s, read, order) == CmdLoop(s, order, 1, <<>>)

\* The record of a _cmd call kept in the variable last.
CallRecord(s, frm, read, order, c) ==
    [pre |-> s, frame |-> frm, read |-> read, order |-> order,
     steps |-> c.steps, exc |-> c.exc, ret |-> c.ret]

NoCall ==
    [pre |-> InitSelf, frame |-> <<>>, read |-> <<>>, order |-> <<>>,
     steps |-> <<>>, exc |-> "none", ret |-> None]

------------------------------------------------------------------------------
(* Python values handed back to the caller, tagged with their type. *)

\* n is the number of an int, s the characters of a str, f the fields of a tuple.
PyNone == [t |-> "None", n |-> 0, s |-> <<>>, f |-> <<>>]
PyInt(n) == [t |-> "int", n |-> n, s |-> <<>>, f |-> <<>>]
PyStr(x) == [t |-> "str", n |-> 0, s |-> x, f |-> <<>>]
PyTuple(x) == [t |-> "tuple", n |-> 0, s |-> <<>>, f |-> x]

\* The outcome of a public call: the argument it was given, the exception it
\* raised ("none", or "running" while _set_value is under way) and its value.
Outcome(op, exc, ret) == [op |-> op, arg |-> PyNone, exc |-> exc, ret |-> ret]
WithArg(o, arg) == [o EXCEPT !.arg = arg]
NoOutcome == Outcome("none", "none", PyNone)

NoFrame == [reg |-> "none", set_level |-> 0, set_pointer |-> PyNone, ascending |-> FALSE]
NoDevice ==
    [reg |-> "none", value |-> 0, step |-> 0, rejects |-> FALSE, silent |-> FALSE, input |-> 0]

------------------------------------------------------------------------------
(* What the serial line may deliver to a _cmd call: response lines, joined *)
(* into reads of at most MaxLines lines, each line ended by "\r".          *)

RECURSIVE Join(_, _)
Join(fields, sep) ==
    IF Len(fields) = 0 THEN <<>>
    ELSE IF Len(fields) = 1 THEN fields[1]
    ELSE fields[1] \o <<sep>> \o Join(Tail(fields), sep)

Line(fields) == <<"#">> \o Join(fields, ",")

IntData == {<<"-", "4">>, <<"7">>}
OddData == {<<"x">>, <<" ", "0">>, <<"-", " ", "4">>, <<>>}

AmplifierLines ==
    {Line(<<Ch("6"), Code(n), d>>) : n \in {2, 3, 4, 5, 6, 7, 10, 20, 21}, d \in IntData}
    \cup {Line(<<Ch("6"), Code(n), d>>) : n \in {2, 10}, d \in OddData}
    \cup {Line(<<Ch("6"), Code(n), Ch(b)>>) : n \in {1, 11}, b \in {"0", "1", "2"}}
    \cup {Line(<<Ch("6"), Code(12), Ch(b)>>) : b \in {"0", "1", "2", "3", "4", "5"}}
    \cup {Line(<<Ch("6"), Code(n)>>) : n \in {8, 9, 13, 14}}
    \cup {Line(<<Ch("6"), Code(8), Ch("1")>>)}

SourceLines ==
    {Line(<<Ch("7"), Code(1), Code(n)>>) : n \in {3, 10}}
    \cup {Line(<<Ch("7"), Code(1), <<>>>>)}
    \cup {Line(<<Ch("7"), Code(n), Code(1)>>) : n \in {4, 5}}

ProcessingLines == {Line(<<Ch("9"), Code(n), <<"D", "D">>>>) : n \in 1..5}

VersionLines == {Line(<<Code(10), Code(n), <<"1", ".", "2">>>>) : n \in 1..2}

ErrorLines ==
    {Line(<<Code(11), Code(n)>>) : n \in {1, 2, 3, 99}}
    \cup {Line(<<Code(11), Code(3), Ch("x")>>), Line(<<Code(11), Ch("3")>>)}

\* Records of pairs the classifier has no rule for.
UntabledLines ==
    {Line(<<Ch("6"), Code(n), Ch("1")>>) : n \in {0, 15, 99}}
    \cup {Line(<<Ch("6"), Ch("2"), Ch("1")>>), Line(<<Ch("7"), Code(2), Code(3)>>),
          Line(<<Ch("7"), Code(6)>>), Line(<<Ch("9"), Code(6), Ch("1")>>),
          Line(<<Code(10), Code(3), Ch("1")>>), Line(<<Ch("8"), Code(1), Ch("5")>>),
          Line(<<Ch("1"), Code(2)>>), Line(<<Code(66), Code(2), Ch("5")>>),
          Line(<<Code(1), Code(1), Ch("1")>>)}

\* Records cut short (the read stops at 50 bytes), and the empty line.
ShortLines ==
    {Line(<<g>>) : g \in {Ch("6"), Ch("7"), Ch("9"), Code(10), Code(11), Ch("8")}}
    \cup {Line(<<Ch("6"), Code(2)>>), Line(<<Ch("7"), Code(1)>>), Line(<<Ch("7"), Code(4)>>),
          Line(<<Ch("9"), Code(2)>>), Line(<<Code(10), Code(1)>>), <<"#">>}

AllLines ==
    AmplifierLines \cup SourceLines \cup ProcessingLines \cup VersionLines
        \cup ErrorLines \cup UntabledLines \cup ShortLines

\* Lines that arrive together with others in one read.
MultiLines ==
    { Line(<<Ch("7"), Code(1), Code(5)>>), Line(<<Ch("7"), Code(4), Code(1)>>),
      Line(<<Ch("6"), Code(2), <<"-", "4">>>>), Line(<<Code(11), Code(3)>>) }

RECURSIVE Concat(_)
Concat(lines) == IF lines = <<>> THEN <<>> ELSE Append(Head(lines), CR) \o Concat(Tail(lines))

\* Reads in which a line is repeated, next to itself or around another line.
RepeatedReads ==
    {Concat(<<a, b, a>>) : a \in {Line(<<Ch("6"), Code(10), <<"7">>>>), Line(<<Code(11), Code(3)>>)},
                           b \in {Line(<<Ch("7"), Code(1), Code(5)>>)}}
    \cup {Concat(<<a, a, a>>) : a \in {Line(<<Ch("6"), Code(10), <<"7">>>>)}}
    \cup {Concat(<<b, a, a>>) : a \in {Line(<<Ch("6"), Code(3), <<"-", "4">>>>)},
                               b \in {Line(<<Ch("7"), Code(1), Code(5)>>), Line(<<Code(11), Code(3)>>)}}

\* Reads in which an active-input record is followed by a source record: the
\* input is one of the nine, '00', '10', or no two-digit code.
ReportedInputs == {Code(0), Code(9), Code(10), Ch("3")}

SourceReads ==
    {Concat(<<Line(<<Ch("7"), Code(1), x>>), Line(<<Ch("7"), Code(n), Code(1)>>)>>) :
        x \in ReportedInputs, n \in {4, 5}}

Reads ==
    {<<>>} \cup {Concat(<<l>>) : l \in AllLines}
        \cup {Concat(q) : q \in UNION {[1..n -> MultiLines] : n \in 2..MaxLines}}
        \cup RepeatedReads
        \cup SourceReads

\* The command given to _cmd: volume up, '#1,02'.
Commands == {<<Ch("1"), Code(2), None>>}

------------------------------------------------------------------------------
(* The dispatcher against an arbitrary line: SpecCmd. *)

MaxCmds == 1

InitCmd ==
    /\ self = InitSelf
    /\ conn = TRUE
    /\ pc = "idle"
    /\ frame = NoFrame
    /\ dev = NoDevice
    /\ written = <<>>
    /\ result = NoOutcome
    /\ last = NoCall
    /\ calls = 0

\* A call of _cmd(group, number, data) by the user of the class.
CmdCall ==
    /\ pc = "idle"
    /\ calls < MaxCmds
    /\ \E c \in Commands, read \in Reads :
         \E order \in Visits(read) :
            LET frm == Frame(c[1], c[2], c[3])
                run == _cmd(self, read, order)
            IN  /\ self' = run.self
                /\ written' = <<frm>>
                /\ last' = CallRecord(self, frm, read, order, run)
                /\ result' = Outcome("_cmd", run.exc,
                                     IF run.exc = "none" THEN PyTuple(run.ret[1]) ELSE PyNone)
    /\ calls' = calls + 1
    /\ UNCHANGED <<conn, pc, frame, dev>>

\* "if command_data": None, 0 and '' are false.
Truthy(v) == (v.t = "int" /\ v.n # 0) \/ (v.t = "str" /\ v.s # <<>>)

\* '%s' % v
Format(v) == IF v.t = "int" THEN str(v.n) ELSE IF v.t = "str" THEN v.s ELSE <<"N", "o", "n", "e">>

\* The command _cmd composes from arguments of any type.
Composed(group, number, data) ==
    Command(Format(group), Format(number), IF Truthy(data) THEN Some(Format(data)) ELSE None)

\* The fields a caller means by (group, number, data): data is no field when it
\* is None.
Logical(group, number, data) ==
    <<Format(group), Format(number)>> \o (IF data = PyNone THEN <<>> ELSE <<Format(data)>>)

\* Arguments of the echoed calls: strings and integers, data absent, empty, zero.
EchoGroups == {PyStr(Ch("1")), PyInt(1), PyStr(Ch("6"))}
EchoNumbers == {PyStr(Code(2)), PyInt(2)}
EchoData == {PyNone, PyStr(<<>>), PyStr(Ch("0")), PyInt(0), PyInt(5), PyStr(<<"-", "4">>)}

\* _cmd wrote frm and ended as run on the read that echoes frm.
Echoed(s, frm, logical, order, run) ==
    /\ self' = run.self
    /\ written' = <<frm>>
    /\ last' = CallRecord(s, frm, frm, order, run)
    /\ result' = WithArg(Outcome("_cmd echoed", run.exc,
                                 IF run.exc = "none" THEN PyTuple(run.ret[1]) ELSE PyNone),
                         PyTuple(logical))

EchoOf(s, frm, logical) ==
    \E order \in Visits(frm) : Echoed(s, frm, logical, order, _cmd(s, frm, order))

\* A call of _cmd(group, number, data) whose frame the line echoes back.
EchoCall ==
    /\ pc = "idle"
    /\ calls < MaxCmds
    /\ \E g \in EchoGroups, n \in EchoNumbers, d \in EchoData :
         EchoOf(self, Append(Composed(g, n, d), CR), Logical(g, n, d))
    /\ calls' = calls + 1
    /\ UNCHANGED <<conn, pc, frame, dev>>

NextCmd == CmdCall \/ EchoCall

SpecCmd == InitCmd /\ [][NextCmd]_vars

------------------------------------------------------------------------------
(* The amplifier of the convergence runs: one level register that moves by a *)
(* fixed step and either saturates at its limits or rejects the command     *)
(* with '#11,03', and the selected input.  It answers a frame with one line, *)
(* or, when silent, with nothing before the read times out.                 *)

\* Limits handed to _set_value by set_volume, set_bass and set_treble.
Min(reg) == IF reg = "volume" THEN 0 - 90 ELSE 0 - 10
Max(reg) == IF reg = "volume" THEN 0 ELSE 10

\* Command numbers of the increment and decrement primitive of a register
\* (volume_up '02', volume_down '03', bass '04' '05', treble '06' '07').
UpNumber(reg) == IF reg = "volume" THEN Code(2) ELSE IF reg = "bass" THEN Code(4) ELSE Code(6)
DownNumber(reg) == IF reg = "volume" THEN Code(3) ELSE IF reg = "bass" THEN Code(5) ELSE Code(7)

Clamp(reg, v) == IF v < Min(reg) THEN Min(reg) ELSE IF v > Max(reg) THEN Max(reg) ELSE v

Reply(d, fields) == [dev |-> d, read |-> Append(Line(fields), CR)]

\* The level register moved by delta.
DeviceMove(d, number, delta) ==
    LET target == d.value + delta
    IN  IF d.rejects /\ (target < Min(d.reg) \/ target > Max(d.reg))
        THEN Reply(d, <<Code(11), Code(3)>>)
        ELSE Reply([d EXCEPT !.value = Clamp(d.reg, target)],
                   <<Ch("6"), number, str(Clamp(d.reg, target))>>)

DeviceSelect(d, n) == Reply([d EXCEPT !.input = n], <<Ch("7"), Code(1), Code(n)>>)

\* The amplifier's answer to a frame, and the amplifier after it.
DeviceReply(d, frm) ==
    IF d.silent THEN [dev |-> d, read |-> <<>>]
    ELSE IF frm = Frame(Ch("1"), UpNumber(d.reg), None)
        THEN DeviceMove(d, UpNumber(d.reg), d.step)
    ELSE IF frm = Frame(Ch("1"), DownNumber(d.reg), None)
        THEN DeviceMove(d, DownNumber(d.reg), 0 - d.step)
    ELSE IF frm = Frame(Ch("2"), Code(3), None) THEN DeviceSelect(d, (d.input + 1) % 11)
    ELSE IF frm = Frame(Ch("2"), Code(2), None) THEN DeviceSelect(d, (d.input + 10) % 11)
    ELSE IF \E n \in 0..10 : frm = Frame(Ch("2"), Code(1), Some(Code(n)))
        THEN DeviceSelect(d, CHOOSE n \in 0..10 : frm = Frame(Ch("2"), Code(1), Some(Code(n))))
    ELSE IF \E n \in 0..3 : frm = Frame(Ch("2"), Code(4), Some(Code(n)))
        THEN Reply(d, <<Ch("7"), Code(4),
                        Code(CHOOSE n \in 0..3 : frm = Frame(Ch("2"), Code(4), Some(Code(n))))>>)
    ELSE IF \E n \in 0..3 : frm = Frame(Ch("2"), Code(5), Some(Code(n)))
        THEN Reply(d, <<Ch("7"), Code(5),
                        Code(CHOOSE n \in 0..3 : frm = Frame(Ch("2"), Code(5), Some(Code(n))))>>)
    ELSE Reply(d, <<Code(11), Code(2)>>)

------------------------------------------------------------------------------
(* One round trip of _cmd with the amplifier, and the public primitives.   *)

\* The outcome of a round trip: frame frm went out, the amplifier answered rep,
\* the lines were visited in order and _cmd ended as run.
Exchanged(s, frm, rep, order, run) ==
    [self |-> run.self, dev |-> rep.dev, exc |-> run.exc, ret |-> run.ret,
     frame |-> frm, call |-> CallRecord(s, frm, rep.read, order, run)]

Visited(s, frm, rep, order) == Exchanged(s, frm, rep, order, _cmd(s, rep.read, order))

\* The amplifier answers with one line: its set has one iteration order.
Answered(s, frm, rep) ==
    Visited(s, frm, rep, CHOOSE o \in Orders(Responses(rep.read)) : TRUE)

Sent(s, d, frm) == Answered(s, frm, DeviceReply(d, frm))

\* self._cmd(group, number, data) answered by the amplifier.
RoundTrip(s, d, group, number, data) == Sent(s, d, Frame(group, number, data))

\* self._cmd(...)[2], as volume_up and volume_down return it: the raw field.
Field2(rt) ==
    IF rt.exc # "none" THEN [exc |-> rt.exc, ret |-> PyNone]
    ELSE IF Len(rt.ret[1]) < 3 THEN [exc |-> "IndexError", ret |-> PyNone]
    ELSE [exc |-> "none", ret |-> PyStr(rt.ret[1][3])]

\* int(x) as a primitive returns it, n being the int() result.
IntReturned(n) ==
    IF n = None THEN [exc |-> "ValueError: invalid literal", ret |-> PyNone]
    ELSE [exc |-> "none", ret |-> PyInt(n[1])]

IntOfField(f) == IF f.exc # "none" THEN f ELSE IntReturned(int(f.ret.s))

\* int(self._cmd(...)[2]), as bass_up, bass_down, treble_up, treble_down return it.
IntField2(rt) == IntOfField(Field2(rt))

\* What the primitive of a register hands back from its round trip.
Returned(reg, rt) == IF reg = "volume" THEN Field2(rt) ELSE IntField2(rt)

\* A primitive's round trip rt with what the primitive made of it, r.
Handed(rt, r) ==
    [self |-> rt.self, dev |-> rt.dev, frame |-> rt.frame, call |-> rt.call,
     exc |-> r.exc, ret |-> r.ret]

Primitive(reg, rt) == Handed(rt, Returned(reg, rt))

\* volume_up / bass_up / treble_up and volume_down / bass_down / treble_down.
increment_callback(s, d) == Primitive(d.reg, RoundTrip(s, d, Ch("1"), UpNumber(d.reg), None))
decrement_callback(s, d) == Primitive(d.reg, RoundTrip(s, d, Ch("1"), DownNumber(d.reg), None))

------------------------------------------------------------------------------
(* Azur650R._set_value. *)

\* Python 2 ordering of an int and a str: a number is smaller than any string.
Lt(a, b) ==
    IF a.t = "int" /\ b.t = "int" THEN a.n < b.n
    ELSE a.t = "int" /\ b.t = "str"

Eq(a, b) == a = b

\* The sanity checks: the level as an integer, or the exception raised.
InRange(n, min, max) ==
    IF n = None THEN [exc |-> "TypeError", level |-> 0]
    ELSE IF n[1] > max \/ n[1] < min THEN [exc |-> "ValueError: set_level", level |-> 0]
    ELSE [exc |-> "none", level |-> n[1]]

Sanity(level, min, max) ==
    InRange(IF level.t = "int" THEN Some(level.n) ELSE int(level.s), min, max)

\* "Does the value need to go up or down?"
GoesDown(set_level, set_pointer) == Lt(PyInt(set_level), set_pointer)
GoesUp(set_level, set_pointer) == Lt(set_pointer, PyInt(set_level))

\* Variant: the loop runs until the pointer equals the level.
StepsOnUntilEqual(ascending, set_pointer, set_level) == ~Eq(set_pointer, PyInt(set_level))

\* The loop's test before a step: the pointer differs from the level and has
\* not reached or passed it in the direction of travel.
StepsOn(ascending, set_pointer, set_level) ==
    /\ ~Eq(set_pointer, PyInt(set_level))
    /\ \/ ascending /\ Lt(set_pointer, PyInt(set_level))
       \/ ~ascending /\ Lt(PyInt(set_level), set_pointer)

\* int(x) of a value a primitive returned.
ToInt(x) == IF x.t = "int" THEN Some(x.n) ELSE int(x.s)

------------------------------------------------------------------------------
(* The engine against the amplifier: SpecSet.  A run exercises one level   *)
(* register through its primitives and _set_value, or the source commands. *)

MaxStep == 3
MaxCalls == 2
MaxWritten == 8

LevelRegisters == {"volume", "bass", "treble"}

\* Values of a register within Span of one of its limits.
Starts(reg) == {v \in Min(reg)..Max(reg) : v - Min(reg) <= Span \/ Max(reg) - v <= Span}

LevelDevices ==
    UNION {{[reg |-> r, value |-> v, step |-> k, rejects |-> b, silent |-> FALSE, input |-> 1] :
                v \in Starts(r), k \in 1..MaxStep, b \in BOOLEAN} : r \in LevelRegisters}

SourceDevices ==
    {[reg |-> "source", value |-> 0, step |-> 1, rejects |-> FALSE, silent |-> FALSE,
      input |-> n] : n \in {1, 10}}

InitSet ==
    /\ self = InitSelf
    /\ conn = TRUE
    /\ pc = "idle"
    /\ frame = NoFrame
    /\ dev \in LevelDevices \cup SourceDevices
    /\ written = <<>>
    /\ result = NoOutcome
    /\ last = NoCall
    /\ calls = 0

Running(op) == Outcome(op, "running", PyNone)

\* A primitive called on its own made its round trip p.
Stepped(op, p) ==
    /\ self' = p.self
    /\ dev' = p.dev
    /\ written' = <<p.frame>>
    /\ last' = p.call
    /\ result' = Outcome(op, p.exc, p.ret)
    /\ UNCHANGED <<conn, pc, frame, calls>>

\* On a closed port the write of _cmd raises: nothing is sent and nothing read.
Refused(op) ==
    /\ result' = Outcome(op, "SerialException", PyNone)
    /\ written' = <<>>
    /\ UNCHANGED <<self, conn, pc, frame, dev, last, calls>>

\* volume_up(), volume_down() and their bass and treble counterparts, called on
\* their own.
StepCall ==
    /\ pc = "idle"
    /\ dev.reg \in LevelRegisters
    /\ \/ conn /\ Stepped("up", increment_callback(self, dev))
       \/ conn /\ Stepped("down", decrement_callback(self, dev))
       \/ ~conn /\ \E op \in {"up", "down"} : Refused(op)

\* The levels a caller asks for: integers around the amplifier's value, one on
\* each side of the accepted range, an integer-like string and a string that
\* is no integer.
Levels(d) ==
    {PyInt(v) : v \in (d.value - Span)..(d.value + Span)}
        \cup {PyInt(Min(d.reg) - 1), PyInt(Max(d.reg) + 1)}
        \cup {PyStr(str(d.value)), PyStr(<<"x">>)}

\* Lines 327-334 once the pointer is known: pick the direction, or return.
Decide(fr, set_pointer) ==
    IF GoesDown(fr.set_level, set_pointer)
    THEN [pc |-> "loop", frame |-> [fr EXCEPT !.set_pointer = set_pointer, !.ascending = FALSE],
          out |-> Running("_set_value")]
    ELSE IF GoesUp(fr.set_level, set_pointer)
    THEN [pc |-> "loop", frame |-> [fr EXCEPT !.set_pointer = set_pointer, !.ascending = TRUE],
          out |-> Running("_set_value")]
    ELSE [pc |-> "idle", frame |-> NoFrame, out |-> Outcome("_set_value", "none", PyNone)]

\* An exception leaves _set_value.
Propagate(e) == [pc |-> "idle", frame |-> NoFrame, out |-> Outcome("_set_value", e, PyNone)]

\* _set_value, called with level, goes on at nxt.pc or is over with outcome nxt.out.
Goes(nxt, level) ==
    /\ pc' = nxt.pc
    /\ frame' = nxt.frame
    /\ result' = WithArg(nxt.out, level)

\* The locals of a _set_value call for register reg that passed the checks.
Locals(reg, set_level) ==
    [reg |-> reg, set_level |-> set_level, set_pointer |-> PyNone, ascending |-> FALSE]

\* _set_value after its sanity checks gave chk, set_pointer being the register
\* of the mirror: raise, go and probe, or decide on the known value.
Begun(reg, chk, set_pointer) ==
    IF chk.exc # "none" THEN Propagate(chk.exc)
    ELSE IF set_pointer = None
        THEN [pc |-> "probe", frame |-> Locals(reg, chk.level), out |-> Running("_set_value")]
    ELSE Decide(Locals(reg, chk.level), PyInt(set_pointer[1]))

\* set_volume(level), set_bass(level), set_treble(level): _set_value up to its
\* first round trip.
SetValueCall ==
    /\ pc = "idle"
    /\ dev.reg \in LevelRegisters
    /\ \E level \in Levels(dev) :
         Goes(Begun(dev.reg, Sanity(level, Min(dev.reg), Max(dev.reg)), self[dev.reg]), level)
    /\ written' = <<>>
    /\ UNCHANGED <<self, conn, dev, last, calls>>

\* The log of the frames of a call holds MaxWritten frames: when it is full it
\* starts again with the frame that comes next.
Logged(w, frm) == IF Len(w) < MaxWritten THEN Append(w, frm) ELSE <<frm>>

\* The round trip p of a primitive inside _set_value took place.
Tripped(p) ==
    /\ self' = p.self
    /\ dev' = p.dev
    /\ written' = Logged(written, p.frame)
    /\ last' = p.call
    /\ UNCHANGED <<conn, calls>>

\* The primitive _set_value calls finds the port closed: its exception leaves
\* _set_value.
RefusedTrip ==
    /\ Goes(Propagate("SerialException"), result.arg)
    /\ UNCHANGED <<self, conn, dev, written, last, calls>>

\* Variant: the probe by increment follows any exception of the decrement.
ProbedDownAnyError(p) ==
    /\ Tripped(p)
    /\ Goes(IF p.exc # "none"
                THEN [pc |-> "probe_inc", frame |-> frame, out |-> result]
            ELSE Decide(frame, p.ret),
            result.arg)

\* The probe by decrement made its round trip p.
ProbedDown(p) ==
    /\ Tripped(p)
    /\ Goes(IF p.exc = "CommandDataError"
                THEN [pc |-> "probe_inc", frame |-> frame, out |-> result]
            ELSE IF p.exc # "none" THEN Propagate(p.exc)
            ELSE Decide(frame, p.ret),
            result.arg)

\* "if set_pointer is None: set_pointer = decrement_callback()"
ProbeDecrement ==
    /\ pc = "probe"
    /\ \/ conn /\ ProbedDown(decrement_callback(self, dev))
       \/ ~conn /\ RefusedTrip

\* The probe by increment made its round trip p.
ProbedUp(p) ==
    /\ Tripped(p)
    /\ Goes(IF p.exc # "none" THEN Propagate(p.exc) ELSE Decide(frame, p.ret), result.arg)

\* "except CommandDataError: set_pointer = increment_callback()"
ProbeIncrement ==
    /\ pc = "probe_inc"
    /\ conn
    /\ ProbedUp(increment_callback(self, dev))

\* Variant: the value observed last is returned.
LoopOnObserved(fr, n) ==
    IF n = None THEN Propagate("ValueError: invalid literal")
    ELSE IF StepsOn(fr.ascending, PyInt(n[1]), fr.set_level)
        THEN [pc |-> "loop", frame |-> [fr EXCEPT !.set_pointer = PyInt(n[1])],
              out |-> Running("_set_value")]
    ELSE [pc |-> "idle", frame |-> NoFrame, out |-> Outcome("_set_value", "none", PyInt(n[1]))]

\* The loop after "set_pointer = int(action())" gave n: another pass, or
\* "return set_level".
LoopOn(fr, n) ==
    IF n = None THEN Propagate("ValueError: invalid literal")
    ELSE IF StepsOn(fr.ascending, PyInt(n[1]), fr.set_level)
        THEN [pc |-> "loop", frame |-> [fr EXCEPT !.set_pointer = PyInt(n[1])],
              out |-> Running("_set_value")]
    ELSE [pc |-> "idle", frame |-> NoFrame,
          out |-> Outcome("_set_value", "none", PyInt(fr.set_level))]

\* The action of the loop made its round trip p.
Looped(p) ==
    /\ Tripped(p)
    /\ Goes(IF p.exc # "none" THEN Propagate(p.exc) ELSE LoopOn(frame, ToInt(p.ret)),
            result.arg)

\* One pass of the while loop: "set_pointer = int(action())", then the loop's
\* tests.
LoopStep ==
    /\ pc = "loop"
    /\ \/ conn /\ frame.ascending /\ Looped(increment_callback(self, dev))
       \/ conn /\ ~frame.ascending /\ Looped(decrement_callback(self, dev))
       \/ ~conn /\ RefusedTrip

\* The outcome of a public call that makes round trips of its own.
Done(s, d, frames, call, exc, ret) ==
    [self |-> s, dev |-> d, frames |-> frames, call |-> call, exc |-> exc, ret |-> ret]

\* "return self._cmd(...)" after the frames before were written, rt being the
\* round trip.
ReturnCmd(before, rt) ==
    Done(rt.self, rt.dev, Append(before, rt.frame), rt.call, rt.exc,
         IF rt.exc = "none" THEN PyTuple(rt.ret[1]) ELSE PyNone)

\* input_select(input_id)
InputSelect(s, d, lc, input_id) ==
    IF input_id \notin input_names THEN Done(s, d, <<>>, lc, "KeyError", PyNone)
    ELSE ReturnCmd(<<>>, RoundTrip(s, d, Ch("2"), Code(1), Some(input_id)))

\* input_select_previous() after input_select_next() made round trip n.
LearnedBoth(n, q) == Done(q.self, q.dev, <<n.frame, q.frame>>, q.call, q.exc, PyNone)

LearnedNext(n) ==
    IF n.exc # "none" THEN Done(n.self, n.dev, <<n.frame>>, n.call, n.exc, PyNone)
    ELSE LearnedBoth(n, RoundTrip(n.self, n.dev, Ch("2"), Code(2), None))

\* "if self.__active_input is None: input_select_next(); input_select_previous()"
LearnInput(s, d, lc) ==
    IF s.active_input # None THEN Done(s, d, <<>>, lc, "none", PyNone)
    ELSE LearnedNext(RoundTrip(s, d, Ch("2"), Code(3), None))

\* "if isinstance(value, (int, long)): value = '0%s' % value"
SourceCode(value) == IF value.t = "int" THEN <<"0">> \o str(value.n) ELSE value.s

\* The sanity checks and the command, after the input was learned with outcome l.
SourceChecked(l, v, map, number, valid) ==
    IF l.exc # "none" THEN l
    ELSE IF l.self.active_input = None \/ l.self.active_input[1] \notin DOMAIN l.self[map]
        THEN Done(l.self, l.dev, l.frames, l.call, "TypeError: input", PyNone)
    ELSE IF v \notin valid
        THEN Done(l.self, l.dev, l.frames, l.call, "ValueError: source", PyNone)
    ELSE ReturnCmd(l.frames, RoundTrip(l.self, l.dev, Ch("2"), number, Some(v)))

\* set_audio_source_for_input(value) with map the audio map, number '04' and
\* valid ['00', '01', '02']; set_video_source_for_input(value) with the video
\* map, '05' and ['00', '01', '02', '03'].
SetSourceForInput(s, d, lc, value, map, number, valid) ==
    SourceChecked(LearnInput(s, d, lc), SourceCode(value), map, number, valid)

\* The outcome o of a call computed for an open port, on the port as it is: on a
\* closed port the first write raises, before anything was sent or read.
OnPort(open, s, d, lc, o) ==
    IF open \/ o.frames = <<>> THEN o
    ELSE Done(s, d, <<>>, lc, "SerialException", PyNone)

\* A public call that ran to its end.
Called(op, arg, o) ==
    /\ self' = o.self
    /\ dev' = o.dev
    /\ written' = o.frames
    /\ last' = o.call
    /\ result' = WithArg(Outcome(op, o.exc, o.ret), arg)
    /\ calls' = calls + 1
    /\ UNCHANGED <<conn, pc, frame>>

InputIds == {Code(0), Code(3), Code(10), Code(11), Ch("3")}
SourceValues == {PyStr(Code(1)), PyStr(Code(5)), PyStr(Ch("1")), PyInt(2), PyInt(3)}

InputSelectCall ==
    /\ pc = "idle"
    /\ dev.reg = "source"
    /\ calls < MaxCalls
    /\ \E input_id \in InputIds :
         Called("input_select", PyStr(input_id),
                OnPort(conn, self, dev, last, InputSelect(self, dev, last, input_id)))

SetAudioSourceCall ==
    /\ pc = "idle"
    /\ dev.reg = "source"
    /\ calls < MaxCalls
    /\ \E value \in SourceValues :
         Called("set_audio_source_for_input", value,
                OnPort(conn, self, dev, last,
                       SetSourceForInput(self, dev, last, value, "audio_source_for_input",
                                         Code(4), {Code(0), Code(1), Code(2)})))

SetVideoSourceCall ==
    /\ pc = "idle"
    /\ dev.reg = "source"
    /\ calls < MaxCalls
    /\ \E value \in SourceValues :
         Called("set_video_source_for_input", value,
                OnPort(conn, self, dev, last,
                       SetSourceForInput(self, dev, last, value, "video_source_for_input",
                                         Code(5), {Code(0), Code(1), Code(2), Code(3)})))

NextSet ==
    \/ StepCall
    \/ SetValueCall
    \/ ProbeDecrement
    \/ ProbeIncrement
    \/ LoopStep
    \/ InputSelectCall
    \/ SetAudioSourceCall
    \/ SetVideoSourceCall

SpecSet == InitSet /\ [][NextSet]_vars

------------------------------------------------------------------------------
(* The loop of _set_value left to run: SpecLoop.  The amplifier moves by a   *)
(* positive step, or is stuck: it answers every command with the value it   *)
(* has.  The interpreter does not halt: a call that has begun goes on, which *)
(* is weak fairness of NextLoop, a step of which is possible in every state, *)
(* written as the steps it asks for.                                        *)

Moving ==
    {d \in LevelDevices : d.reg \in {"volume", "treble"} /\ d.step \in {1, 2}
                            /\ d.value \in {Min(d.reg), Min(d.reg) + 1, Max(d.reg)}}

LoopDevices == Moving \cup {[d EXCEPT !.step = 0] : d \in {m \in Moving : m.step = 1}}

InitLoop ==
    /\ self = InitSelf
    /\ conn = TRUE
    /\ pc = "idle"
    /\ frame = NoFrame
    /\ dev \in LoopDevices
    /\ written = <<>>
    /\ result = NoOutcome
    /\ last = NoCall
    /\ calls = 0

NextLoop ==
    \/ StepCall
    \/ SetValueCall
    \/ ProbeDecrement
    \/ ProbeIncrement
    \/ LoopStep

Executing == []<><<TRUE>>_vars

SpecLoop == InitLoop /\ [][NextLoop]_vars /\ Executing

------------------------------------------------------------------------------
(* The engine with its port closed and reopened: SpecConn. *)

\* The amplifiers of these runs: a volume or bass register at one of its limits
\* that moves in steps of 2, the same amplifier when it does not answer, and the
\* inputs.
AtLimit ==
    {d \in LevelDevices :
        d.reg \in {"volume", "bass"} /\ d.step = 2 /\ d.value \in {Min(d.reg), Max(d.reg)}}

ConnDevices ==
    AtLimit \cup {[d EXCEPT !.silent = TRUE] : d \in {a \in AtLimit : ~a.rejects}}
        \cup SourceDevices

InitConn ==
    /\ self = InitSelf
    /\ conn = TRUE
    /\ pc = "idle"
    /\ frame = NoFrame
    /\ dev \in ConnDevices
    /\ written = <<>>
    /\ result = NoOutcome
    /\ last = NoCall
    /\ calls = 0

\* Variant: disconnect() forgets the registers.
DisconnectDiscarding ==
    /\ pc = "idle"
    /\ conn' = FALSE
    /\ self' = InitSelf
    /\ result' = Outcome("disconnect", "none", PyNone)
    /\ written' = <<>>
    /\ UNCHANGED <<pc, frame, dev, last, calls>>

\* disconnect(): self.__conn.close(), which does nothing to a closed port.
Disconnect ==
    /\ pc = "idle"
    /\ conn' = FALSE
    /\ result' = Outcome("disconnect", "none", PyNone)
    /\ written' = <<>>
    /\ UNCHANGED <<self, pc, frame, dev, last, calls>>

\* Variant: connect() starts from fresh registers.
ConnectResetting ==
    /\ pc = "idle"
    /\ conn' = TRUE
    /\ self' = InitSelf
    /\ result' = Outcome("connect", IF conn THEN "SerialException" ELSE "none", PyNone)
    /\ written' = <<>>
    /\ UNCHANGED <<pc, frame, dev, last, calls>>

\* connect(): self.__conn.open(), which raises on a port that is open.
Connect ==
    /\ pc = "idle"
    /\ conn' = TRUE
    /\ result' = Outcome("connect", IF conn THEN "SerialException" ELSE "none", PyNone)
    /\ written' = <<>>
    /\ UNCHANGED <<self, pc, frame, dev, last, calls>>

NextConn == NextSet \/ Connect \/ Disconnect

SpecConn == InitConn /\ [][NextConn]_vars

------------------------------------------------------------------------------
(* The step primitives against an arbitrary line, with the port closed and   *)
(* reopened between them: SpecMirror.                                        *)

MaxReports == 2

\* volume_up(), bass_up() and lip_sync_increase(): the register each reports and
\* the number of its command.  The first returns the field, the others int() of
\* it.
StepPrimitives ==
    { [op |-> "volume_up", reg |-> "volume", number |-> Code(2)],
      [op |-> "bass_up", reg |-> "bass", number |-> Code(4)],
      [op |-> "lip_sync_increase", reg |-> "lip_sync", number |-> Code(21)] }

\* The lines of these reads: a bass report, a bass report int() cannot read, a
\* volume report, an active-input report and a rejection.
MirrorLines ==
    << Line(<<Ch("6"), Code(4), <<"7">>>>), Line(<<Ch("6"), Code(4), <<"x">>>>),
       Line(<<Ch("6"), Code(2), <<"-", "4">>>>), Line(<<Ch("7"), Code(1), Code(5)>>),
       Line(<<Code(11), Code(3)>>) >>

\* Nothing, one line, or two distinct lines.
MirrorReads ==
    {<<>>} \cup {Concat(<<MirrorLines[i]>>) : i \in DOMAIN MirrorLines}
        \cup {Concat(<<MirrorLines[q[1]], MirrorLines[q[2]]>>) :
                 q \in {x \in (DOMAIN MirrorLines) \X (DOMAIN MirrorLines) : x[1] # x[2]}}

\* The primitive prim made its round trip p.
Delivered(prim, p) ==
    /\ self' = p.self
    /\ written' = <<p.frame>>
    /\ last' = p.call
    /\ result' = Outcome(prim.op, p.exc, p.ret)
    /\ calls' = calls + 1
    /\ UNCHANGED <<conn, pc, frame, dev>>

\* prim called while read is what the line delivers.
ReportOf(s, d, prim, frm, read) ==
    \E order \in Visits(read) :
        Delivered(prim, Primitive(prim.reg, Visited(s, frm, [dev |-> d, read |-> read], order)))

\* A step primitive called on its own, whatever the line delivers.
PrimitiveCall ==
    /\ pc = "idle"
    /\ calls < MaxReports
    /\ \/ conn /\ \E prim \in StepPrimitives, read \in MirrorReads :
                    ReportOf(self, dev, prim, Frame(Ch("1"), prim.number, None), read)
       \/ ~conn /\ \E prim \in StepPrimitives : Refused(prim.op)

NextMirror == PrimitiveCall \/ Connect \/ Disconnect

SpecMirror == InitCmd /\ [][NextMirror]_vars

------------------------------------------------------------------------------
(* Properties of the dispatcher and the classifier (SpecCmd). *)

Steps == {last.steps[i] : i \in DOMAIN last.steps}

ProtocolErrors ==
    {"CommandGroupError", "CommandNumberError", "CommandDataError",
     "ValueError: Invalid command"}

\* The protocol error the second field of a group-11 record stands for.
ErrorKind(r) ==
    IF Len(r) >= 2 /\ r[2] = Code(1) THEN "CommandGroupError"
    ELSE IF Len(r) >= 2 /\ r[2] = Code(2) THEN "CommandNumberError"
    ELSE IF Len(r) >= 2 /\ r[2] = Code(3) THEN "CommandDataError"
    ELSE "ValueError: Invalid command"

\* C1: every record whose first field is "11" makes _cmd raise the protocol
\* error its second field selects (01 group, 02 number, 03 data, anything else
\* the generic invalid-command error), and a record of another group never
\* raises a protocol error.
C1_ErrorClassification ==
    \A st \in Steps :
        /\ st.rec[1] = Code(11) => st.exc = ErrorKind(st.rec)
        /\ st.rec[1] # Code(11) => st.exc \notin ProtocolErrors

\* The registers after the records of q were classified in turn from s.
RECURSIVE ApplyAll(_, _)
ApplyAll(s, q) ==
    IF q = <<>> THEN s ELSE ApplyAll(_parse_response(s, Fields(Head(q))).self, Tail(q))

IsErrorLine(l) == Fields(l)[1] = Code(11)

\* The error record the loop of the last call reached: the first record of
\* group 11 in iteration order, all records before it having been classified.
ErrorReachedAt(k) ==
    /\ k \in DOMAIN last.order
    /\ IsErrorLine(last.order[k])
    /\ \A j \in 1..(k - 1) :
          Classify(ApplyAll(last.pre, SubSeq(last.order, 1, j - 1)),
                   Fields(last.order[j])).exc = "none"

\* C6: first error wins.  When the loop reaches a group-11 record, _cmd raises
\* there: the records after it in iteration order are not classified (the log of
\* visited records ends at the error record) and not applied (the registers are
\* those produced by the records before it).
C6_FirstErrorWins ==
    \A k \in DOMAIN last.order :
        ErrorReachedAt(k) =>
            /\ result.exc # "none"
            /\ Len(last.steps) = k
            /\ \A j \in 1..k : last.steps[j].rec = Fields(last.order[j])
            /\ self = ApplyAll(last.pre, SubSeq(last.order, 1, k - 1))

\* An error record was reached first, with an active-input record of the same
\* read still unvisited: the call raised and the input stays unknown.
C6_Witness ==
    /\ Len(last.order) = 2
    /\ ErrorReachedAt(1)
    /\ Fields(last.order[2]) = <<Ch("7"), Code(1), Code(5)>>
    /\ result.exc = "CommandDataError"
    /\ self.active_input = None

Registers ==
    {"power_state", "volume", "bass", "treble", "subwoofer", "lfe_trim", "mute_state",
     "dynamic_range", "osd_on", "lip_sync", "active_input", "audio_source_for_input",
     "video_source_for_input", "stereo_audio_mode", "signal_processing_mode",
     "signal_codec", "main_software_version", "protocol_version"}

\* The table of the classifier: the register a (group, number) pair names.
TableRegister(g, n) ==
    IF g = Ch("6") THEN
        CASE n = Code(1) -> "power_state"
          [] n \in {Code(2), Code(3)} -> "volume"
          [] n \in {Code(4), Code(5)} -> "bass"
          [] n \in {Code(6), Code(7)} -> "treble"
          [] n \in {Code(8), Code(9)} -> "subwoofer"
          [] n = Code(10) -> "lfe_trim"
          [] n = Code(11) -> "mute_state"
          [] n = Code(12) -> "dynamic_range"
          [] n \in {Code(13), Code(14)} -> "osd_on"
          [] n \in {Code(20), Code(21)} -> "lip_sync"
          [] OTHER -> "none"
    ELSE IF g = Ch("7") THEN
        CASE n = Code(1) -> "active_input"
          [] n = Code(4) -> "audio_source_for_input"
          [] n = Code(5) -> "video_source_for_input"
          [] OTHER -> "none"
    ELSE IF g = Ch("9") THEN
        CASE n = Code(1) -> "stereo_audio_mode"
          [] n \in {Code(2), Code(4)} -> "signal_processing_mode"
          [] n \in {Code(3), Code(5)} -> "signal_codec"
          [] OTHER -> "none"
    ELSE IF g = Code(10) THEN
        CASE n = Code(1) -> "main_software_version"
          [] n = Code(2) -> "protocol_version"
          [] OTHER -> "none"
    ELSE "none"

\* The integers the lines of the exploration report, written out.
ReportedInt(d) ==
    CASE d = <<"-", "4">> -> Some(0 - 4)
      [] d = <<"7">> -> Some(7)
      [] d = <<" ", "0">> -> Some(0)
      [] OTHER -> None

\* The value a record of a tabled pair reports for its register, None when its
\* data field is missing or is no value of the register's kind.
Reported(r) ==
    LET g == r[1]
        n == r[2]
        d == IF Len(r) >= 3 THEN Some(r[3]) ELSE None
    IN  IF g = Ch("6") /\ n \in {Code(8), Code(13)} THEN Some(TRUE)
        ELSE IF g = Ch("6") /\ n \in {Code(9), Code(14)} THEN Some(FALSE)
        ELSE IF d = None THEN None
        ELSE IF g = Ch("6") /\ n \in {Code(1), Code(11)} THEN
            (IF d[1] = Ch("1") THEN Some(TRUE) ELSE IF d[1] = Ch("0") THEN Some(FALSE) ELSE None)
        ELSE IF g = Ch("6") /\ n = Code(12) THEN
            (CASE d[1] = Ch("0") -> Some(0) [] d[1] = Ch("1") -> Some(25)
               [] d[1] = Ch("2") -> Some(50) [] d[1] = Ch("3") -> Some(75)
               [] d[1] = Ch("4") -> Some(100) [] OTHER -> None)
        ELSE IF g = Ch("6") /\ n = Code(10) THEN
            (IF ReportedInt(d[1]) = None THEN None ELSE Some(0 - ReportedInt(d[1])[1]))
        ELSE IF g = Ch("6") THEN ReportedInt(d[1])
        ELSE d

\* The records C7 is about: tabled pairs other than the per-input sources.
Tabled(r) ==
    /\ Len(r) >= 2
    /\ TableRegister(r[1], r[2]) \notin {"none", "audio_source_for_input", "video_source_for_input"}

\* C7: classifying a record of a tabled pair sets the register the table names
\* to the value the record reports (the integer, the bit, the negated LFE
\* magnitude, the dynamic-range fraction, the string) and leaves every other
\* register as it was.
C7_TableUpdates ==
    \A st \in Steps :
        Tabled(st.rec) =>
            /\ \A f \in Registers \ {TableRegister(st.rec[1], st.rec[2])} :
                  st.after[f] = st.before[f]
            /\ Reported(st.rec) # None =>
                  /\ st.exc = "none"
                  /\ st.after[TableRegister(st.rec[1], st.rec[2])] = Reported(st.rec)

\* An LFE-trim record reporting magnitude 7 was classified: the trim is -7.
C7_Witness ==
    \E st \in Steps :
        /\ st.rec = <<Ch("6"), Code(10), <<"7">>>>
        /\ st.after.lfe_trim = Some(0 - 7)
        /\ self.lfe_trim = Some(0 - 7)

\* The lines of a read, in the order they arrived.
Arrived(read) == split(strip(read, CR), CR)

\* C8: an audio-source record (7/04) is stored under the input named by the
\* active-input record (7/01) received before it, also when both records arrive
\* in one read.
C8_SourceUnderReportedInput ==
    \A x \in {Code(5)}, y \in {Code(1)} :
        Arrived(last.read) = <<Line(<<Ch("7"), Code(1), x>>), Line(<<Ch("7"), Code(4), y>>)>>
            => /\ self.active_input = Some(x)
               /\ x \in DOMAIN self.audio_source_for_input
               /\ self.audio_source_for_input[x] = Some(y)

IsSourceRecord(r) == Len(r) >= 2 /\ r[1] = Ch("7") /\ r[2] \in {Code(4), Code(5)}

\* C9: while the active input is unknown, classifying an audio-source or
\* video-source record changes no register and raises nothing.
C9_SourceDroppedWhileInputUnknown ==
    \A st \in Steps :
        IsSourceRecord(st.rec) /\ st.before.active_input = None =>
            st.after = st.before /\ st.exc = "none"

\* A source record was classified while the active input was unknown.
C9_Witness ==
    \E st \in Steps :
        /\ st.rec = <<Ch("7"), Code(4), Code(1)>>
        /\ st.before.active_input = None
        /\ result.exc = "none"

\* A record with a (group, number) pair the table has no rule for.
Untabled(r) ==
    /\ Len(r) >= 2
    /\ r[1] # Code(11)
    /\ TableRegister(r[1], r[2]) = "none"

\* C10: a record whose (group, number) pair is not in the table and whose group
\* is not "11" raises nothing and changes no register.
C10_UntabledIsNoOp ==
    \A st \in Steps : Untabled(st.rec) => st.after = st.before /\ st.exc = "none"

\* A record of a group without rules was classified and the call returned it.
C10_Witness ==
    \E st \in Steps :
        /\ st.rec = <<Ch("8"), Code(1), Ch("5")>>
        /\ result = Outcome("_cmd", "none", PyTuple(st.rec))

------------------------------------------------------------------------------
(* Properties of the convergence engine and of validation (SpecSet). *)

\* The integer a caller's level stands for.
Target(level) == IF level.t = "int" THEN level.n ELSE int(level.s)[1]

\* A _set_value call is entered with an integer target equal to the value the
\* mirror holds for the register.
EntersAtTarget ==
    /\ pc = "idle"
    /\ result'.op = "_set_value"
    /\ result'.arg.t = "int"
    /\ self[dev.reg] = Some(result'.arg.n)

\* C2: called with a target equal to the known value, _set_value makes no round
\* trip and returns the target.
C2_KnownTargetIsNoOp ==
    [][EntersAtTarget =>
          /\ pc' = "idle"
          /\ written' = <<>>
          /\ result'.exc = "none"
          /\ result'.ret = result'.arg]_vars

\* A pass of the loop on an integer pointer, the amplifier saturating.
IntegerPass == pc = "loop" /\ ~dev.rejects /\ frame.set_pointer.t = "int"

\* A pass that ends the call with a return.
LastPass == IntegerPass /\ pc' = "idle" /\ result'.exc = "none"

Observed(call) == int(call.ret[1][3])[1]

\* C4 as claimed: after at least one pass of the loop, _set_value returns the
\* final value observed from the amplifier.
C4_ReturnsObserved ==
    [][pc = "loop" /\ pc' = "idle" /\ result'.exc = "none" =>
          result'.ret = PyInt(Observed(last'))]_vars

\* C4 (amended): after at least one pass of the loop, _set_value returns the
\* requested target as an integer, whatever value was observed last.
C4_ReturnsTarget ==
    [][pc = "loop" /\ pc' = "idle" /\ result'.exc = "none" =>
          result'.ret = PyInt(Target(result'.arg))]_vars

\* A call returned its target while the amplifier reported another value last.
C4_Witness ==
    /\ pc = "idle"
    /\ result.op = "_set_value"
    /\ result.exc = "none"
    /\ result.ret.t = "int"
    /\ result.ret.n = Target(result.arg)
    /\ Len(written) >= 2
    /\ Observed(last) # result.ret.n

\* The exceptions that reject a value the caller supplied.
ValidationErrors == {"TypeError", "ValueError: set_level", "KeyError", "ValueError: source"}

\* C5: a public call that rejects a caller-supplied value has written no frame
\* to the transport.
C5_ValidationBeforeIO ==
    pc = "idle" /\ result.exc \in ValidationErrors => written = <<>>

------------------------------------------------------------------------------
(* Properties of the framing of reads and frames (SpecCmd). *)

\* How many of the visits logged for the last call were visits of line l.
TimesVisited(l) == Cardinality({i \in 1..Len(last.steps) : last.order[i] = l})

\* The lines that occur two or more times in a read.
Repeated(read) ==
    {l \in SeqToSet(Arrived(read)) :
        Cardinality({i \in 1..Len(Arrived(read)) : Arrived(read)[i] = l}) >= 2}

\* C11 as claimed: a line that occurs several times in a read is classified
\* exactly once by the call.
C11_ClassifiedExactlyOnce ==
    \A l \in Repeated(last.read) : TimesVisited(l) = 1

\* C11 (amended): a line that occurs in a read, once or several times at any
\* positions, is classified at most once by the call; exactly once when the call
\* returns, and not at all only when the error of another line ended the loop
\* before the line was reached.
C11_DuplicateSuppression ==
    \A l \in SeqToSet(Arrived(last.read)) :
        /\ TimesVisited(l) <= 1
        /\ last.exc = "none" /\ last.read # <<>> => TimesVisited(l) = 1
        /\ TimesVisited(l) = 0 /\ last.read # <<>> =>
              /\ last.exc # "none"
              /\ last.steps[Len(last.steps)].exc = last.exc
              /\ last.order[Len(last.steps)] # l

\* A read of three lines, the first and the third byte-identical, was classified
\* in two visits: the lfe trim was stored by one of them.
C11_Witness ==
    /\ Len(Arrived(last.read)) = 3
    /\ Arrived(last.read)[1] = Arrived(last.read)[3]
    /\ Arrived(last.read)[1] # Arrived(last.read)[2]
    /\ Len(last.steps) = 2
    /\ last.exc = "none"
    /\ self.lfe_trim = Some(0 - 7)

\* C12: the frame composed for (group, number, data), echoed back as the only
\* record of the read, is split into exactly the fields group, number and data.
C12_EncodingRoundTrip ==
    result.op = "_cmd echoed" =>
        /\ Len(last.steps) = 1
        /\ last.steps[1].rec = result.arg.f

------------------------------------------------------------------------------
(* Properties of the registers over the life of the engine (SpecConn). *)

\* The registers c holds are the work of _parse_response on the records of the
\* read of call c: each visit starts from the registers the visit before left,
\* its record is a line of the read, and its effect is that of _parse_response.
ClassifiedBy(c, s) ==
    /\ c.steps # <<>>
    /\ c.frame # <<>>
    /\ s = c.steps[Len(c.steps)].after
    /\ \A i \in 1..Len(c.steps) :
          /\ c.order[i] \in Responses(c.read)
          /\ c.steps[i].rec = Fields(c.order[i])
          /\ c.steps[i].before = (IF i = 1 THEN c.pre ELSE c.steps[i - 1].after)
          /\ c.steps[i].after # c.steps[i].before =>
                c.steps[i].after = _parse_response(c.steps[i].before, c.steps[i].rec).self

\* C14: construction leaves every register unknown, and a step that changes a
\* register is a step in which a frame was written and the new registers are
\* those _parse_response made from the records read back; connect, disconnect,
\* a call that wrote nothing (a failed validation, a refusal by the closed
\* port) and the bookkeeping of _set_value change no register.
C14_WrittenOnlyByClassification ==
    /\ self = InitSelf
    /\ [][/\ self' # self => written' # <<>> /\ ClassifiedBy(last', self')
          /\ result'.op \in {"connect", "disconnect"} => self' = self
          /\ written' = <<>> => self' = self
          /\ pc' # "idle" /\ written' = written => self' = self]_vars

\* After registers were learned, connect() on the open port was refused: the
\* registers are those the last call left.
C14_Witness ==
    /\ result.op = "connect"
    /\ result.exc = "SerialException"
    /\ self.bass # None
    /\ ClassifiedBy(last, self)

\* C15 as claimed: after disconnect(), and after a later connect(), every
\* register is unknown again.
C15_DiscardedOnDisconnect ==
    /\ ~conn => self = InitSelf
    /\ result.op = "connect" /\ result.exc = "none" => self = InitSelf

\* C15 (amended): disconnect() and connect() leave every register as it was:
\* what was observed before the disconnect is still held after it and after a
\* later connect(), until a new response changes it.
C15_RetainedAcrossDisconnect ==
    [][result'.op \in {"connect", "disconnect"} => self' = self /\ last' = last]_vars

\* The port was closed and opened again, and the bass observed before is still
\* held.
C15_Witness ==
    /\ conn
    /\ result.op = "connect"
    /\ result.exc = "none"
    /\ self.bass # None
    /\ last.steps # <<>>
    /\ self = last.steps[Len(last.steps)].after

------------------------------------------------------------------------------
(* Properties of the probe and of the direction of _set_value. *)

\* The frames of the decrement and of the increment primitive of a register.
DownFrame(reg) == Frame(Ch("1"), DownNumber(reg), None)
UpFrame(reg) == Frame(Ch("1"), UpNumber(reg), None)

\* C16: _set_value with a valid target probes if and only if the register is
\* unknown; the probe calls decrement once; increment is called as the probe,
\* once, if and only if that decrement raised CommandDataError; another
\* exception of the probe leaves _set_value with no further call.
C16_ProbeOnce ==
    [][/\ pc = "idle" /\ pc' # "idle" =>
             /\ written' = <<>>
             /\ pc' = "probe" <=> self[dev.reg] = None
             /\ pc' = "loop" <=> self[dev.reg] # None
       /\ pc' = "probe" => pc = "idle"
       /\ pc' = "probe_inc" => pc = "probe"
       /\ pc = "probe" =>
             /\ written = <<>>
             /\ written' \in {<<>>, <<DownFrame(dev.reg)>>}
             /\ pc' = "probe_inc" <=> written' # <<>> /\ last'.exc = "CommandDataError"
             /\ written' # <<>> /\ last'.exc \notin {"none", "CommandDataError"} =>
                   pc' = "idle" /\ result'.exc = last'.exc
             /\ written' # <<>> /\ last'.exc = "none" /\ Len(last'.ret[1]) < 3 =>
                   pc' = "idle" /\ result'.exc = "IndexError"
             /\ written' = <<>> => pc' = "idle" /\ result'.exc = "SerialException"
       /\ pc = "probe_inc" =>
             /\ written' = <<DownFrame(dev.reg), UpFrame(dev.reg)>>
             /\ pc' \in {"idle", "loop"}
             /\ last'.exc # "none" => pc' = "idle" /\ result'.exc = last'.exc]_vars

\* A call ran to its end after its decrement was rejected and its increment
\* taught it the value.
C16_Witness ==
    /\ pc = "idle"
    /\ result.op = "_set_value"
    /\ result.exc = "none"
    /\ Len(written) >= 2
    /\ written[1] = DownFrame(dev.reg)
    /\ written[2] = UpFrame(dev.reg)
    /\ dev.rejects

\* The value _set_value compares the target with when it picks its direction:
\* the register of the mirror, or the value the probe just learned.
CurrentAtChoice == IF pc = "idle" THEN self[dev.reg][1] ELSE Observed(last')

\* C17: when _set_value picks its direction, it picks increment if the target
\* is above the current value and decrement if it is below, for volume, bass
\* and treble alike.
C17_DirectionTowardTarget ==
    [][pc # "loop" /\ pc' = "loop" =>
          /\ frame'.ascending <=> frame'.set_level > CurrentAtChoice
          /\ ~frame'.ascending <=> frame'.set_level < CurrentAtChoice]_vars

\* The number the pointer of the loop stands for.
PointerValue == ToInt(frame.set_pointer)[1]

\* C18: every call of a pass of the loop is a call of the primitive chosen with
\* the direction, the direction never changes, and a call is made only while
\* the pointer is short of the target: below it when ascending, above it when
\* descending.
C18_OnlyTowardTarget ==
    [][pc = "loop" /\ written' # written =>
          /\ written' = Append(written, IF frame.ascending THEN UpFrame(dev.reg)
                                                           ELSE DownFrame(dev.reg))
          /\ pc' = "loop" => frame'.ascending = frame.ascending
          /\ frame.ascending => PointerValue < frame.set_level
          /\ ~frame.ascending => PointerValue > frame.set_level]_vars

------------------------------------------------------------------------------
(* Termination of the loop of _set_value (SpecLoop). *)

\* C19: against an amplifier that moves by a positive step, so that every call
\* the loop makes returns a value further in the chosen direction, a _set_value
\* call that has begun comes to its end, for every target in range and every
\* starting value.
C19_TerminatesUnderProgress == (pc # "idle" /\ dev.step > 0) ~> (pc = "idle")

\* Without that progress the loop has no bound: against the stuck amplifier
\* this is violated, the loop making the same pass again and again.
C19_TerminatesAlways == (pc # "idle") ~> (pc = "idle")

\* A call returned after three or more passes of its loop against an amplifier
\* that moves.
C19_Witness ==
    /\ pc = "idle"
    /\ dev.step > 0
    /\ result.op = "_set_value"
    /\ result.exc = "none"
    /\ self[dev.reg] # None
    /\ Len(written) >= 3
    /\ \A i \in 1..Len(written) : written[i] = UpFrame(dev.reg)

\* The loop goes on after MaxWritten round trips against the stuck amplifier.
C19_Stuck ==
    /\ pc = "loop"
    /\ dev.step = 0
    /\ Len(written) = MaxWritten
    /\ frame.set_pointer = PyInt(dev.value)

\* The keys the constructor gives both per-input maps: '01' to '09'.
KnownInputs == {Code(n) : n \in 1..9}

\* C20: after any sequence of responses the audio-source and video-source maps
\* have the keys '01' to '09' and no other, whatever input the active-input
\* records named.
C20_OnlyKnownInputKeys ==
    /\ DOMAIN self.audio_source_for_input = KnownInputs
    /\ DOMAIN self.video_source_for_input = KnownInputs

\* '#7,01,10' then '#7,04,01' arrived in one read and were classified in that
\* order: the audio map has the key '10'.
C20_Witness ==
    /\ Arrived(last.read) = <<Line(<<Ch("7"), Code(1), Code(10)>>),
                              Line(<<Ch("7"), Code(4), Code(1)>>)>>
    /\ result.exc = "none"
    /\ Code(10) \in DOMAIN self.audio_source_for_input

------------------------------------------------------------------------------
(* Properties of the registers under arbitrary lines (SpecMirror). *)

\* The registers that hold one value: all but the two per-input maps.
ScalarRegisters == Registers \ {"audio_source_for_input", "video_source_for_input"}

\* Every scalar register known in s is known in t.
StaysKnown(s, t) == \A reg \in ScalarRegisters : s[reg] # None => t[reg] # None

\* C21: a scalar register that holds a value never returns to unknown: not by a
\* call of a primitive, whatever the read holds and whether it raises, not by
\* any record classified on the way, and not by connect() or disconnect().
C21_KnownStaysKnown ==
    [][/\ StaysKnown(self, self')
       /\ \A i \in DOMAIN last'.steps : StaysKnown(last'.steps[i].before, last'.steps[i].after)
       /\ last' # last => StaysKnown(last'.pre, self')]_vars

\* The bass was known, a later call read a bass report int() cannot read and
\* raised, the port was closed after it: the bass is still known.
C21_Witness ==
    /\ last.pre.bass # None
    /\ last.exc = "ValueError: invalid literal"
    /\ \E i \in DOMAIN last.steps : last.steps[i].rec = <<Ch("6"), Code(4), <<"x">>>>
    /\ result.op = "disconnect"
    /\ ~conn
    /\ self.bass = last.pre.bass

\* The register a step primitive reports.
RegisterOf(op) == (CHOOSE prim \in StepPrimitives : prim.op = op).reg

\* C22: after a step primitive returned, the value it returned is the value the
\* register of the primitive now holds, whatever the read held (a returned str
\* is compared by the integer it spells).
C22_ReturnsRegisterValue ==
    (result.op \in {prim.op : prim \in StepPrimitives} /\ result.exc = "none") =>
        /\ self[RegisterOf(result.op)] # None
        /\ ToInt(result.ret) = self[RegisterOf(result.op)]

\* bass_up() read '#6,04,7' and then '#7,01,05' and visited them in that order:
\* it returned 5, the input, while the bass register holds 7.
C22_Witness ==
    /\ result = Outcome("bass_up", "none", PyInt(5))
    /\ Arrived(last.read) = <<Line(<<Ch("6"), Code(4), <<"7">>>>),
                              Line(<<Ch("7"), Code(1), Code(5)>>)>>
    /\ last.order = Arrived(last.read)
    /\ last.pre = InitSelf
    /\ self.bass = Some(7)

------------------------------------------------------------------------------
(* What an error of _cmd leaves in the registers (SpecCmd). *)

\* The lines the loop of the last call went through before the one it raised at.
BeforeError == SubSeq(last.order, 1, Len(last.steps) - 1)

\* C23: a protocol error raised by _cmd undoes nothing: the registers after the
\* error are those the call began with, changed by the records classified
\* before the error record, in the order they were visited, and by nothing
\* else.
C23_NoRollback ==
    result.exc \in ProtocolErrors =>
        /\ last.steps # <<>>
        /\ IsErrorLine(last.order[Len(last.steps)])
        /\ \A j \in 1..(Len(last.steps) - 1) : last.steps[j].exc = "none"
        /\ self = ApplyAll(last.pre, BeforeError)

\* A volume report was classified, then the rejection of the same read made
\* _cmd raise: the volume it reported is held.
C23_Witness ==
    /\ result.exc = "CommandDataError"
    /\ last.order = <<Line(<<Ch("6"), Code(2), <<"-", "4">>>>), Line(<<Code(11), Code(3)>>)>>
    /\ last.pre.volume = None
    /\ self.volume = Some(0 - 4)
    /\ self # last.pre

====
